---- MODULE Spec2Model ----
(***************************************************************************)
(* A model of the HTTP-to-signald bridge of signal-cli-rest-api            *)
(* (src/src/api/api.go, and the second copy of that file kept under        *)
(* src/unnamed/part_000 whose SendV2 differs).                             *)
(*                                                                         *)
(* Strings are sequences of one-character strings, so that HasPrefix,      *)
(* TrimPrefix and the base64 codec are computed as the Go code computes    *)
(* them.  The model starts from the request struct as the handler reads   *)
(* it after BindJSON; the JSON binding itself is outside the model.        *)
(* Calls into signald, the file system, filetype and qrcode are steps      *)
(* whose outcome (success or error) is chosen nondeterministically.        *)
(*                                                                         *)
(* Three specifications share the module:                                  *)
(*   Spec         the send handlers Send, SendV2 and the send helper;      *)
(*   LinkSpec     concurrent Link calls on the one shared transport;       *)
(*   ReceiveSpec  the Receive handler and its frame channel.               *)
(***************************************************************************)
EXTENDS Integers, Sequences, FiniteSets, TLC

\* ------------------------------------------------------------------ bounds
MaxRecipients == 2
MaxAttachments == 2
MaxSessions == 2
MaxFrames == 4
MaxPayload == 3
MaxGroupIDLen == 3
MaxGroups == 1

\* ----------------------------------------------------------------- strings
groupPrefix == <<"g", "r", "o", "u", "p", ".">>

HasPrefix(s, p) == Len(s) >= Len(p) /\ SubSeq(s, 1, Len(p)) = p

TrimPrefix(s, p) == IF HasPrefix(s, p) THEN SubSeq(s, Len(p) + 1, Len(s)) ELSE s

Range(s) == {s[i] : i \in 1..Len(s)}

SeqsUpTo(S, n) == UNION {[1..k -> S] : k \in 0..n}

\* ------------------------------------------------------------------ base64
\* encoding/base64 StdEncoding: the standard alphabet, '=' padding required,
\* '\r' and '\n' skipped, trailing bits of the last quantum not checked.
B64Alphabet ==
    << "A", "B", "C", "D", "E", "F", "G", "H", "I", "J", "K", "L", "M",
       "N", "O", "P", "Q", "R", "S", "T", "U", "V", "W", "X", "Y", "Z",
       "a", "b", "c", "d", "e", "f", "g", "h", "i", "j", "k", "l", "m",
       "n", "o", "p", "q", "r", "s", "t", "u", "v", "w", "x", "y", "z",
       "0", "1", "2", "3", "4", "5", "6", "7", "8", "9", "+", "/" >>

IsB64Char(c) == \E i \in 1..64 : B64Alphabet[i] = c

B64Val(c) == (CHOOSE i \in 1..64 : B64Alphabet[i] = c) - 1

IsNewline(c) == c = "\n" \/ c = "\r"

\* The input without the characters the decoder skips.
RECURSIVE StripNewlines(_)
StripNewlines(s) ==
    IF s = <<>> THEN <<>>
    ELSE (IF IsNewline(Head(s)) THEN <<>> ELSE <<Head(s)>>) \o StripNewlines(Tail(s))

\* One full quantum of four alphabet characters: three bytes.
Quantum3(q) ==
    LET v == B64Val(q[1]) * 262144 + B64Val(q[2]) * 4096
             + B64Val(q[3]) * 64 + B64Val(q[4])
    IN  << v \div 65536, (v \div 256) % 256, v % 256 >>

\* A last quantum "xxx=": two bytes.
Quantum2(q) ==
    LET v == B64Val(q[1]) * 262144 + B64Val(q[2]) * 4096 + B64Val(q[3]) * 64
    IN  << v \div 65536, (v \div 256) % 256 >>

\* A last quantum "xx==": one byte.
Quantum1(q) ==
    LET v == B64Val(q[1]) * 262144 + B64Val(q[2]) * 4096
    IN  << v \div 65536 >>

\* Decoding of an input already stripped of newlines.
RECURSIVE DecodeQuanta(_)
DecodeQuanta(s) ==
    IF s = <<>> THEN [err |-> FALSE, bytes |-> <<>>]
    ELSE IF Len(s) < 4 THEN [err |-> TRUE, bytes |-> <<>>]
    ELSE
      LET q == SubSeq(s, 1, 4)
          rest == SubSeq(s, 5, Len(s))
      IN  IF \A i \in 1..4 : IsB64Char(q[i])
          THEN LET r == DecodeQuanta(rest)
               IN  [err |-> r.err,
                    bytes |-> IF r.err THEN <<>> ELSE Quantum3(q) \o r.bytes]
          ELSE IF /\ rest = <<>>
                  /\ \A i \in 1..3 : IsB64Char(q[i])
                  /\ q[4] = "="
          THEN [err |-> FALSE, bytes |-> Quantum2(q)]
          ELSE IF /\ rest = <<>>
                  /\ \A i \in 1..2 : IsB64Char(q[i])
                  /\ q[3] = "=" /\ q[4] = "="
          THEN [err |-> FALSE, bytes |-> Quantum1(q)]
          ELSE [err |-> TRUE, bytes |-> <<>>]

\* base64.StdEncoding.DecodeString
DecodeString(s) == DecodeQuanta(StripNewlines(s))

\* []byte(s) for the characters of the base64 alphabet and '=': their ASCII
\* codes.
Ord(c) ==
    IF c = "=" THEN 61
    ELSE LET i == B64Val(c)
         IN  IF i < 26 THEN 65 + i
             ELSE IF i < 52 THEN 71 + i
             ELSE IF i < 62 THEN i - 4
             ELSE IF i = 62 THEN 43 ELSE 47

Bytes(s) == [i \in 1..Len(s) |-> Ord(s[i])]

\* base64.StdEncoding.EncodeToString: four characters for every three bytes,
\* the last quantum padded with '='.
RECURSIVE EncodeToString(_)
EncodeToString(b) ==
    IF b = <<>> THEN <<>>
    ELSE IF Len(b) = 1
    THEN LET v == b[1] * 65536
         IN  << B64Alphabet[(v \div 262144) + 1],
                B64Alphabet[((v \div 4096) % 64) + 1], "=", "=" >>
    ELSE IF Len(b) = 2
    THEN LET v == b[1] * 65536 + b[2] * 256
         IN  << B64Alphabet[(v \div 262144) + 1],
                B64Alphabet[((v \div 4096) % 64) + 1],
                B64Alphabet[((v \div 64) % 64) + 1], "=" >>
    ELSE LET v == b[1] * 65536 + b[2] * 256 + b[3]
         IN  << B64Alphabet[(v \div 262144) + 1],
                B64Alphabet[((v \div 4096) % 64) + 1],
                B64Alphabet[((v \div 64) % 64) + 1],
                B64Alphabet[(v % 64) + 1] >>
             \o EncodeToString(SubSeq(b, 4, Len(b)))

\* The public id without the '=' padding of its base64 part.
convertInternalGroupIDToGroupID_Unpadded(internalID) ==
    groupPrefix \o SelectSeq(EncodeToString(Bytes(internalID)), LAMBDA c : c # "=")

convertInternalGroupIDToGroupID(internalID) ==
    groupPrefix \o EncodeToString(Bytes(internalID))

\* ------------------------------------------------------------ request data
\* The values the request fields are drawn from.
Number == <<"+", "0">>
Num1 == <<"+", "1">>
Num2 == <<"+", "2">>
RawGroupA == <<"Q", "Q", "=", "=">>
GroupA == groupPrefix \o <<"Q", "Q", "=", "=">>
GroupB == groupPrefix \o <<"Q", "g", "=", "=">>
GroupBad == groupPrefix \o <<"Q">>
BlobOK == <<"Q", "U", "I", "=">>
BlobBad == <<"Q">>
Messages == {<<>>, <<"h", "i">>}

V1Recipients == {Num1, Num2, RawGroupA}
V2Recipients == {Num1, Num2, GroupA, GroupB, GroupBad}
Blobs == {BlobOK, BlobBad}

\* type request struct: the fields the send handlers read.
Request(recipients, message, base64Attachment, base64Attachments, isGroup) ==
    [number |-> Number, recipients |-> recipients, message |-> message,
     base64Attachment |-> base64Attachment,
     base64Attachments |-> base64Attachments, isGroup |-> isGroup]

\* req := request{}: what the handler holds when BindJSON fails.
ZeroRequest == Request(<<>>, <<>>, <<>>, <<>>, FALSE)

\* The bodies POSTed to /v1/send.
V1Requests ==
    {Request(r, m, a, <<>>, g) :
        r \in SeqsUpTo(V1Recipients, MaxRecipients), m \in Messages,
        a \in {<<>>} \cup Blobs, g \in BOOLEAN}

\* The bodies POSTed to /v2/send.
V2Requests ==
    {Request(r, m, <<>>, a, FALSE) :
        r \in SeqsUpTo(V2Recipients, MaxRecipients), m \in Messages,
        a \in SeqsUpTo(Blobs, MaxAttachments)}

\* ------------------------------------------------------------------- state
VARIABLES
    handler,      \* the send handler that is running or ran last
    req,          \* its bound request
    pc,           \* where that handler is: idle, call, attach, send, ack, ret, done
    pending,      \* the calls of the send helper the handler has yet to finish
    frame,        \* the locals of the running call of the send helper
    tmpFiles,     \* the temporary files that exist in attachmentTmpDir
    commands,     \* the send commands this HTTP call gave to the daemon, with results
    responses,    \* the status codes this HTTP call wrote
    created       \* the temporary files this HTTP call created

sendVars == <<handler, req, pc, pending, frame, tmpFiles, commands, responses, created>>

VARIABLES
    connected,    \* a.s.IsConnected(): the one transport all handlers share
    lpc,          \* where each Link call is
    deviceName,   \* the device_name of each Link call
    effects       \* what each Link call did to the transport and to its caller, in order

linkVars == <<connected, lpc, deviceName, effects>>

VARIABLES
    rpc,          \* where the Receive handler is
    number,       \* its number parameter
    message,      \* its local message: the frame it read last
    frames,       \* the frames it read from the channel rc, in order
    rresponses    \* the responses it wrote

receiveVars == <<rpc, number, message, frames, rresponses>>

VARIABLES
    gpc,          \* where the group handler is: idle, leave, done
    ghandler,     \* the group handler that is running or ran last
    greq,         \* its parameters, and the group the caller means by them
    groupID,      \* DeleteGroup's local groupID: the decoded bytes
    gcommands,    \* the commands this HTTP call gave to the daemon
    gresponses,   \* the responses this HTTP call wrote
    handed        \* the group entries the last answer of GetGroups or CreateGroup held

groupVars == <<gpc, ghandler, greq, groupID, gcommands, gresponses, handed>>

VARIABLE
    log           \* what the handlers wrote with log.Error

vars == <<sendVars, linkVars, receiveVars, groupVars, log>>

\* ------------------------------------------------------------- send helper
\* The arguments of one call of the send helper.
Invocation(from, text, recipients, base64Attachments, isGroup) ==
    [number |-> from, message |-> text, recipients |-> recipients,
     base64Attachments |-> base64Attachments, isGroup |-> isGroup]

\* The locals of send before its loops; base is the number of commands the
\* HTTP call had issued when this call of send began.
NoFrame ==
    [number |-> <<>>, message |-> <<>>, recipients |-> <<>>, groupID |-> <<>>,
     base64Attachments |-> <<>>, ai |-> 0, attachments |-> <<>>,
     deferred |-> <<>>, ri |-> 0, base |-> 0]

\* The empty-list check left out.
NoRecipients_Skipped(recipients) == FALSE

\* len(recipients) == 0
NoRecipients(recipients) == Len(recipients) = 0

\* The one-entry check left out.
MoreThanOneGroup_Never(recipients) == FALSE

\* len(recipients) > 1, under isGroup
MoreThanOneGroup(recipients) == Len(recipients) > 1

\* base64.StdEncoding.DecodeString(recipients[0]) fails, under isGroup
InvalidGroupID(recipients) == DecodeString(recipients[1]).err

\* ioutil.TempFile: a name no existing file has.
TempName(files) == CHOOSE n \in 1..(Cardinality(files) + 1) : n \notin files

\* Only the first registered file is removed.
RunDefers_FirstOnly(files, deferred) ==
    IF deferred = <<>> THEN files ELSE files \ {Head(deferred)}

\* defer os.Remove(f.Name()): run for every registered file when send returns.
RunDefers(files, deferred) == files \ Range(deferred)

\* c.JSON(code, gin.H{"error": error}); c.JSON(201, nil) has the error "".
\* An err.Error() is written as the call that returned err.
Response(code, error) == [code |-> code, error |-> error]

Reply(code, error) == responses' = Append(responses, Response(code, error))

\* The recipient checks at the head of send: the error message, "" when the
\* recipients pass.
RecipientError(inv) ==
    IF NoRecipients(inv.recipients)
    THEN "Please specify at least one recipient"
    ELSE IF inv.isGroup /\ MoreThanOneGroup(inv.recipients)
    THEN "More than one group is currently not allowed"
    ELSE IF inv.isGroup /\ InvalidGroupID(inv.recipients)
    THEN "Invalid group id"
    ELSE ""

\* The entry of send up to the attachment loop: the validation of the recipients.
SendEnter ==
    /\ pc = "call"
    /\ LET inv == Head(pending)
           error == RecipientError(inv)
       IN  IF error # ""
           THEN /\ Reply(400, error)
                /\ frame' = [NoFrame EXCEPT !.base = Len(commands)]
                /\ pc' = "ret"
           ELSE /\ frame' =
                      [number |-> inv.number,
                       message |-> inv.message,
                       recipients |->
                           IF inv.isGroup
                           THEN [inv.recipients EXCEPT ![1] = <<>>]
                           ELSE inv.recipients,
                       groupID |-> IF inv.isGroup THEN inv.recipients[1] ELSE <<>>,
                       base64Attachments |-> inv.base64Attachments,
                       ai |-> 1, attachments |-> <<>>, deferred |-> <<>>,
                       ri |-> 1, base |-> Len(commands)]
                /\ pc' = IF inv.base64Attachments = <<>> THEN "send" ELSE "attach"
                /\ UNCHANGED responses
    /\ UNCHANGED <<handler, req, pending, tmpFiles, commands, created, linkVars, receiveVars, groupVars, log>>

\* An error reply inside the attachment loop, after which send returns.
AttachmentError(call) ==
    /\ Reply(400, call)
    /\ pc' = "ret"

\* One iteration of the attachment loop, with the file created.
WithTempFile(f) ==
    /\ tmpFiles' = tmpFiles \cup {f}
    /\ created' = Append(created, f)

\* One iteration of the attachment loop.
Materialize ==
    /\ pc = "attach"
    /\ LET dec == DecodeString(frame.base64Attachments[frame.ai])
           f == TempName(tmpFiles)
           registered ==
               [frame EXCEPT !.deferred = Append(@, f),
                             !.attachments = Append(@, f)]
       IN  \/ /\ dec.err                       \* DecodeString fails
              /\ AttachmentError("base64.DecodeString")
              /\ UNCHANGED <<frame, tmpFiles, created>>
           \/ /\ ~dec.err                      \* filetype.Get fails
              /\ AttachmentError("filetype.Get")
              /\ UNCHANGED <<frame, tmpFiles, created>>
           \/ /\ ~dec.err                      \* ioutil.TempFile fails
              /\ AttachmentError("ioutil.TempFile")
              /\ UNCHANGED <<frame, tmpFiles, created>>
           \/ /\ ~dec.err                      \* f.Write fails
              /\ WithTempFile(f)
              /\ frame' = registered
              /\ AttachmentError("f.Write")
           \/ /\ ~dec.err                      \* f.Sync fails
              /\ WithTempFile(f)
              /\ frame' = registered
              /\ AttachmentError("f.Sync")
           \/ /\ ~dec.err                      \* the file is written and closed
              /\ WithTempFile(f)
              /\ frame' = [registered EXCEPT !.ai = @ + 1]
              /\ pc' = IF frame.ai = Len(frame.base64Attachments)
                       THEN "send" ELSE "attach"
              /\ UNCHANGED responses
    /\ UNCHANGED <<handler, req, pending, commands, linkVars, receiveVars, groupVars, log>>

\* a.s.Send(number, RequestAddress{Number: to}, groupID, message, attachments, ...)
SendCommandFor(to, ok) ==
    [number |-> frame.number, to |-> to, groupID |-> frame.groupID,
     message |-> frame.message, attachments |-> frame.attachments, ok |-> ok]

\* The error of a.s.Send ignored.
SendFailed_Ignored(ok) == FALSE

\* if err != nil, after a.s.Send
SendFailed(ok) == ~ok

\* One iteration of the recipient loop: the command, and the daemon's answer.
SendCommand ==
    /\ pc = "send"
    /\ \E ok \in BOOLEAN :
          /\ commands' = Append(commands, SendCommandFor(frame.recipients[frame.ri], ok))
          /\ IF SendFailed(ok)
             THEN /\ Reply(400, "a.s.Send")
                  /\ pc' = "ret"
                  /\ UNCHANGED frame
             ELSE /\ frame' = [frame EXCEPT !.ri = @ + 1]
                  /\ pc' = IF frame.ri = Len(frame.recipients) THEN "ack" ELSE "send"
                  /\ UNCHANGED responses
    /\ UNCHANGED <<handler, req, pending, tmpFiles, created, linkVars, receiveVars, groupVars, log>>

\* c.JSON(201, nil) after the recipient loop.
SendAck ==
    /\ pc = "ack"
    /\ Reply(201, "")
    /\ pc' = "ret"
    /\ UNCHANGED <<handler, req, pending, frame, tmpFiles, commands, created, linkVars, receiveVars, groupVars, log>>

\* send returns: the deferred removals run, and the handler goes on.
SendReturn ==
    /\ pc = "ret"
    /\ tmpFiles' = RunDefers(tmpFiles, frame.deferred)
    /\ pending' = Tail(pending)
    /\ frame' = NoFrame
    /\ pc' = IF Tail(pending) = <<>> THEN "done" ELSE "call"
    /\ UNCHANGED <<handler, req, commands, responses, created, linkVars, receiveVars, groupVars, log>>

\* ---------------------------------------------------------------- handlers
\* The router hands a request to a handler.
Enter(h, r) ==
    /\ handler' = h
    /\ req' = r
    /\ UNCHANGED <<frame, tmpFiles, commands, created, linkVars, receiveVars, groupVars>>

\* log.Error(...): the entry is named by the call that wrote it.
Logged(entry) == log' = log \cup {entry}

\* BindJSON fails: the handler replies 400 and returns; SendV2 logs the error
\* as well, Send does not.
BindError(h) ==
    /\ Enter(h, ZeroRequest)
    /\ Reply(400, "Couldn't process request - invalid request")
    /\ IF h = "Send" THEN UNCHANGED log ELSE Logged("SendV2: BindJSON")
    /\ pending' = <<>>
    /\ pc' = "done"

\* The handler replies 400 itself and returns.
Reject(error) ==
    /\ Reply(400, error)
    /\ UNCHANGED log
    /\ pending' = <<>>
    /\ pc' = "done"

\* The handler calls the send helper, once for each element of calls.
Dispatch(calls) ==
    /\ UNCHANGED <<responses, log>>
    /\ pending' = calls
    /\ pc' = IF calls = <<>> THEN "done" ELSE "call"

\* Send: base64Attachments of the one optional attachment.
V1Attachments(r) ==
    IF r.base64Attachment # <<>> THEN <<r.base64Attachment>> ELSE <<>>

\* POST /v1/send
Send ==
    /\ pc = "idle"
    /\ \/ BindError("Send")
       \/ \E r \in V1Requests :
             /\ Enter("Send", r)
             /\ Dispatch(<<Invocation(r.number, r.message, r.recipients,
                                      V1Attachments(r), r.isGroup)>>)

\* SendV2: the recipients with the group prefix, the prefix trimmed.
RECURSIVE GroupsOf(_)
GroupsOf(recipients) ==
    IF recipients = <<>> THEN <<>>
    ELSE (IF HasPrefix(Head(recipients), groupPrefix)
          THEN <<TrimPrefix(Head(recipients), groupPrefix)>>
          ELSE <<>>) \o GroupsOf(Tail(recipients))

\* SendV2: the recipients without the group prefix.
RECURSIVE PlainOf(_)
PlainOf(recipients) ==
    IF recipients = <<>> THEN <<>>
    ELSE (IF HasPrefix(Head(recipients), groupPrefix)
          THEN <<>>
          ELSE <<Head(recipients)>>) \o PlainOf(Tail(recipients))

\* The mixing check passing a single group next to plain recipients.
Mixed_OneGroupAllowed(recipients, groups) == Len(recipients) > 0 /\ Len(groups) > 1

\* len(recipients) > 0 && len(groups) > 0
Mixed(recipients, groups) == Len(recipients) > 0 /\ Len(groups) > 0

\* len(groups) > 1
TooManyGroups(groups) == Len(groups) > 1

\* The groups served last to first.
GroupCalls_Reversed(r, groups) ==
    [i \in 1..Len(groups) |->
        Invocation(r.number, r.message, <<groups[Len(groups) + 1 - i]>>,
                   r.base64Attachments, TRUE)]

\* for _, group := range groups { a.send(..., []string{group}, ..., true) }
GroupCalls(r, groups) ==
    [i \in 1..Len(groups) |->
        Invocation(r.number, r.message, <<groups[i]>>, r.base64Attachments, TRUE)]

\* if len(recipients) > 0 { a.send(..., recipients, ..., false) }
PlainCalls(r, recipients) ==
    IF Len(recipients) > 0
    THEN <<Invocation(r.number, r.message, recipients, r.base64Attachments, FALSE)>>
    ELSE <<>>

\* POST /v2/send, as src/api/api.go has it.
SendV2 ==
    /\ pc = "idle"
    /\ \/ BindError("SendV2")
       \/ \E r \in V2Requests :
             /\ Enter("SendV2", r)
             /\ LET groups == GroupsOf(r.recipients)
                    recipients == PlainOf(r.recipients)
                IN  IF NoRecipients(r.recipients)
                    THEN Reject("Couldn't process request - please provide at least one recipient")
                    ELSE IF Mixed(recipients, groups)
                    THEN Reject("Signal Messenger Groups and phone numbers cannot be specified together in one request! Please split them up into multiple REST API calls.")
                    ELSE IF TooManyGroups(groups)
                    THEN Reject("A signal message cannot be sent to more than one group at once! Please use multiple REST API calls for that.")
                    ELSE IF Len(recipients) > 0
                    THEN Dispatch(PlainCalls(r, recipients))
                    ELSE Dispatch(GroupCalls(r, groups))

\* POST /v2/send, as the copy in src/unnamed/part_000 has it: the check of
\* len(groups) > 1 is commented out, and the groups are served first.
SendV2_part_000 ==
    /\ pc = "idle"
    /\ \/ BindError("SendV2_part_000")
       \/ \E r \in V2Requests :
             /\ Enter("SendV2_part_000", r)
             /\ LET groups == GroupsOf(r.recipients)
                    recipients == PlainOf(r.recipients)
                IN  IF NoRecipients(r.recipients)
                    THEN Reject("Couldn't process request - please provide at least one recipient")
                    ELSE IF Mixed(recipients, groups)
                    THEN Reject("Signal Messenger Groups and phone numbers cannot be specified together in one request! Please split them up into multiple REST API calls.")
                    ELSE Dispatch(GroupCalls(r, groups) \o PlainCalls(r, recipients))

\* router.Run(): the handler has returned and the server waits for the next
\* request; the record of the finished HTTP call is dropped, the files stay.
Serve ==
    /\ pc = "done"
    /\ pc' = "idle"
    /\ handler' = "none"
    /\ req' = ZeroRequest
    /\ commands' = <<>>
    /\ responses' = <<>>
    /\ created' = <<>>
    /\ UNCHANGED <<pending, frame, tmpFiles, linkVars, receiveVars, groupVars, log>>

\* -------------------------------------------------------------------- Link
\* The Link calls that may run at once, each in its own goroutine.
Sessions == 1..MaxSessions

\* c.Query("device_name")
DeviceNames == {<<>>, <<"d">>}

\* One thing a Link call did: a call on the transport a.s or a write to its
\* caller.  id is the request id passed to a.s.Link, reply the message.ID the
\* daemon answered with.
Effect(op, id, result, reply) == [op |-> op, id |-> id, result |-> result, reply |-> reply]

ReplyError == Effect("c.JSON(400)", <<>>, "written", <<>>)

ReplyImage == Effect("c.Data(200)", <<>>, "written", <<>>)

Connected(ok) == Effect("Connect", <<>>, IF ok THEN "ok" ELSE "err", <<>>)

Disconnected == Effect("Disconnect", <<>>, "ok", <<>>)

LinkIssued(id) == Effect("Link", id, "pending", <<>>)

\* The request id the daemon gives the link command of session s.
RequestID(s) == <<"id", s>>

Do(s, done) == effects' = [effects EXCEPT ![s] = @ \o done]

Goto(s, l) == lpc' = [lpc EXCEPT ![s] = l]

\* The pending a.s.Link of session s gets its answer.
Resolve(s, ok) ==
    [effects[s] EXCEPT ![Len(effects[s])] =
        [@ EXCEPT !.result = IF ok THEN "ok" ELSE "err",
                  !.reply = IF ok THEN RequestID(s) ELSE <<>>]]

\* Link up to the check of the device name.
Link(s) ==
    /\ lpc[s] = "idle"
    /\ \E name \in DeviceNames :
          /\ deviceName' = [deviceName EXCEPT ![s] = name]
          /\ IF name = <<>>
             THEN Do(s, <<ReplyError>>) /\ Goto(s, "returned")
             ELSE UNCHANGED effects /\ Goto(s, "check")
    /\ UNCHANGED <<connected, sendVars, receiveVars, groupVars, log>>

\* if !a.s.IsConnected()
IsConnected(s) ==
    /\ lpc[s] = "check"
    /\ Goto(s, IF connected THEN "link1" ELSE "connect")
    /\ UNCHANGED <<connected, deviceName, effects, sendVars, receiveVars, groupVars, log>>

\* a.s.Connect(): a no-op when the transport is connected, else it may fail,
\* and then Link replies 400 and returns.
Connect(s) ==
    /\ lpc[s] = "connect"
    /\ \/ /\ connected' = TRUE
          /\ Do(s, <<Connected(TRUE)>>)
          /\ Goto(s, "link1")
       \/ /\ ~connected
          /\ UNCHANGED connected
          /\ Do(s, <<Connected(FALSE), ReplyError>>)
          /\ Goto(s, "returned")
    /\ UNCHANGED <<deviceName, sendVars, receiveVars, groupVars, log>>

\* a.s.Link(deviceName, ""): the command is written.
LinkFirst(s) ==
    /\ lpc[s] = "link1"
    /\ Do(s, <<LinkIssued(<<>>)>>)
    /\ Goto(s, "wait1")
    /\ UNCHANGED <<connected, deviceName, sendVars, receiveVars, groupVars, log>>

\* a.s.Link(deviceName, "") returns: with the daemon's answer while the
\* transport is connected, with an error in any case.
LinkFirstReturns(s) ==
    /\ lpc[s] = "wait1"
    /\ \/ /\ connected
          /\ effects' = [effects EXCEPT ![s] = Resolve(s, TRUE)]
          /\ Goto(s, "qr")
       \/ /\ effects' = [effects EXCEPT ![s] = Resolve(s, FALSE) \o <<ReplyError>>]
          /\ Goto(s, "fail")
    /\ UNCHANGED <<connected, deviceName, sendVars, receiveVars, groupVars, log>>

\* qrcode.New(message.Data.URI, qrcode.Medium)
QRCode(s) ==
    /\ lpc[s] = "qr"
    /\ \/ /\ UNCHANGED effects
          /\ Goto(s, "png")
       \/ /\ Do(s, <<ReplyError>>)
          /\ Goto(s, "fail")
    /\ UNCHANGED <<connected, deviceName, sendVars, receiveVars, groupVars, log>>

\* q.PNG(256)
PNG(s) ==
    /\ lpc[s] = "png"
    /\ \/ /\ UNCHANGED effects
          /\ Goto(s, "respond")
       \/ /\ Do(s, <<ReplyError>>)
          /\ Goto(s, "fail")
    /\ UNCHANGED <<connected, deviceName, sendVars, receiveVars, groupVars, log>>

\* The error paths returning with the transport left as it is.
DisconnectAndReturn_NoDisconnect(s) ==
    /\ lpc[s] = "fail"
    /\ Goto(s, "returned")
    /\ UNCHANGED <<connected, effects, deviceName, sendVars, receiveVars, groupVars, log>>

\* The error paths after the first link command: a.s.Disconnect(); return
DisconnectAndReturn(s) ==
    /\ lpc[s] = "fail"
    /\ connected' = FALSE
    /\ Do(s, <<Disconnected>>)
    /\ Goto(s, "returned")
    /\ UNCHANGED <<deviceName, sendVars, receiveVars, groupVars, log>>

\* c.Data(200, "image/png", png); go func() {...}(); and Link returns.
Respond(s) ==
    /\ lpc[s] = "respond"
    /\ Do(s, <<ReplyImage>>)
    /\ Goto(s, "go")
    /\ UNCHANGED <<connected, deviceName, sendVars, receiveVars, groupVars, log>>

\* The second link command carrying no request id.
MessageID_Empty(done) == <<>>

\* message.ID: the request id the first link command was answered with.
MessageID(done) ==
    LET first == CHOOSE i \in 1..Len(done) : done[i].op = "Link"
    IN  done[first].reply

\* In the goroutine: a.s.Link(deviceName, message.ID), the command is written.
LinkSecond(s) ==
    /\ lpc[s] = "go"
    /\ Do(s, <<LinkIssued(MessageID(effects[s]))>>)
    /\ Goto(s, "wait2")
    /\ UNCHANGED <<connected, deviceName, sendVars, receiveVars, groupVars, log>>

\* In the goroutine: a.s.Link(deviceName, message.ID) returns; its results
\* are dropped.
LinkSecondReturns(s) ==
    /\ lpc[s] = "wait2"
    /\ \/ /\ connected
          /\ effects' = [effects EXCEPT ![s] = Resolve(s, TRUE)]
       \/ /\ effects' = [effects EXCEPT ![s] = Resolve(s, FALSE)]
    /\ Goto(s, "disconnect")
    /\ UNCHANGED <<connected, deviceName, sendVars, receiveVars, groupVars, log>>

\* In the goroutine: a.s.Disconnect()
Disconnect(s) ==
    /\ lpc[s] = "disconnect"
    /\ connected' = FALSE
    /\ Do(s, <<Disconnected>>)
    /\ Goto(s, "done")
    /\ UNCHANGED <<deviceName, sendVars, receiveVars, groupVars, log>>

\* ----------------------------------------------------------------- Receive
\* c.Param("number")
Numbers == {<<>>, Number}

\* signald.RawResponse: the frames the channel rc may deliver.
RawResponses == [payload : 1..MaxPayload, Done : BOOLEAN]

\* message := signald.RawResponse{}
NoMessage == [payload |-> 0, Done |-> FALSE]

\* Receive up to the loop: the check of the number, and a.s.Receive(rc, ...).
Receive ==
    /\ rpc = "idle"
    /\ \E n \in Numbers :
          /\ number' = n
          /\ IF n = <<>>
             THEN /\ rresponses' = <<[code |-> 400, body |-> NoMessage]>>
                  /\ rpc' = "done"
             ELSE /\ UNCHANGED rresponses
                  /\ rpc' = "loop"
    /\ UNCHANGED <<message, frames, sendVars, linkVars, groupVars, log>>

\* message = <-rc; if message.Done { break }
ReadFrame ==
    /\ rpc = "loop"
    /\ Len(frames) < MaxFrames
    /\ \E f \in RawResponses :
          /\ message' = f
          /\ frames' = Append(frames, f)
          /\ rpc' = IF f.Done THEN "respond" ELSE "loop"
    /\ UNCHANGED <<number, rresponses, sendVars, linkVars, groupVars, log>>

\* c.JSON(200, message)
ReceiveRespond ==
    /\ rpc = "respond"
    /\ rresponses' = <<[code |-> 200, body |-> message]>>
    /\ rpc' = "done"
    /\ UNCHANGED <<number, message, frames, sendVars, linkVars, groupVars, log>>

\* router.Run(): Receive has returned; the next request finds fresh locals.
ServeReceive ==
    /\ rpc = "done"
    /\ rpc' = "idle"
    /\ number' = <<>>
    /\ message' = NoMessage
    /\ frames' = <<>>
    /\ rresponses' = <<>>
    /\ UNCHANGED <<sendVars, linkVars, groupVars, log>>

\* ------------------------------------------------------------------ groups
\* What the daemon answers to ListGroups: the internal ids are letters, the
\* last character of which may be '=', of every length up to MaxGroupIDLen,
\* so that every padding of the base64 form occurs.
GroupIDChars == {"a", "="}

GroupIDs ==
    {g \in SeqsUpTo(GroupIDChars, MaxGroupIDLen) \ {<<>>} :
        \A i \in 1..(Len(g) - 1) : g[i] = "a"}

GroupNames == {<<"n">>, <<"m">>}

\* The daemon's groups: every id stands for one group, which has its name
\* and its members; the groups differ in both.
DaemonGroups ==
    {[GroupID |-> g,
      Name |-> IF Len(g) % 2 = 1 THEN <<"n">> ELSE <<"m">>,
      Members |-> IF g[1] = "a" THEN <<Number>> ELSE <<>>] : g \in GroupIDs}

GroupLists == SeqsUpTo(DaemonGroups, MaxGroups)

\* One element of getGroups' result.
groupEntry(group, num) ==
    [internalID |-> group.GroupID,
     id |-> convertInternalGroupIDToGroupID(group.GroupID),
     name |-> group.Name,
     members |-> group.Members,
     blocked |-> FALSE,
     active |-> \E i \in 1..Len(group.Members) : group.Members[i] = num]

\* getGroups, given the daemon's answer to ListGroups.
getGroups(list, num) == [i \in 1..Len(list) |-> groupEntry(list[i], num)]

\* A command given to the daemon by a group handler.
GroupCommand(op, num, arg, ok) == [op |-> op, number |-> num, arg |-> arg, ok |-> ok]

GroupResponse(code, error, body) == [code |-> code, error |-> error, body |-> body]

GroupReply(code, error, body) ==
    gresponses' = Append(gresponses, GroupResponse(code, error, body))

\* The parameters of a group request; known tells that groupid was made from
\* an entry the API handed out, and internalID is the id the daemon reported
\* for that entry.
GroupRequest(num, groupid, name, known, internalID) ==
    [number |-> num, groupid |-> groupid, name |-> name,
     known |-> known, internalID |-> internalID]

NoGroupRequest == GroupRequest(<<>>, <<>>, <<>>, FALSE, <<>>)

\* Values of the groupid parameter that no entry stands behind.
StrayGroupIDs ==
    { <<>>,
      groupPrefix \o <<"Q">>,
      <<"Q", "Q", "=">>,
      groupPrefix \o <<"Q", "Q", "Q", "=", "=">>,
      <<"g", "r", "o", "u", "p">> }

\* The groupid parameters a caller sends: a handed-out public id, the same
\* without its prefix, or a stray value.
GroupIDParams ==
    {[groupid |-> s, known |-> FALSE, internalID |-> <<>>] : s \in StrayGroupIDs}
    \cup {[groupid |-> handed[i].id, known |-> TRUE,
           internalID |-> handed[i].internalID] : i \in 1..Len(handed)}
    \cup {[groupid |-> TrimPrefix(handed[i].id, groupPrefix), known |-> TRUE,
           internalID |-> handed[i].internalID] : i \in 1..Len(handed)}

GroupEnter(h, r) ==
    /\ ghandler' = h
    /\ greq' = r

\* GetGroups, with the daemon's answer to ListGroups.
GetGroups ==
    /\ gpc = "idle"
    /\ \E num \in Numbers :
         /\ GroupEnter("GetGroups", GroupRequest(num, <<>>, <<>>, FALSE, <<>>))
         /\ IF num = <<>>
            THEN /\ GroupReply(400, "Please provide a number", <<>>)
                 /\ UNCHANGED <<gcommands, handed>>
            ELSE \/ /\ gcommands' = Append(gcommands, GroupCommand("ListGroups", num, <<>>, FALSE))
                    /\ GroupReply(400, "a.s.ListGroups", <<>>)
                    /\ UNCHANGED handed
                 \/ \E list \in GroupLists :
                      /\ gcommands' = Append(gcommands, GroupCommand("ListGroups", num, <<>>, TRUE))
                      /\ GroupReply(200, "", getGroups(list, num))
                      /\ handed' = getGroups(list, num)
    /\ gpc' = "done"
    /\ UNCHANGED <<groupID, sendVars, linkVars, receiveVars, log>>

\* The group of the daemon's list that carries the name, "" when none does.
RECURSIVE internalGroupID(_, _)
internalGroupID(list, name) ==
    IF list = <<>> THEN <<>>
    ELSE IF Head(list).Name = name THEN Head(list).GroupID
    ELSE internalGroupID(Tail(list), name)

\* CreateGroup, with the outcome of BindJSON, of the daemon's CreateGroup and
\* of its ListGroups.
CreateGroup ==
    /\ gpc = "idle"
    /\ \E num \in Numbers, name \in GroupNames :
         /\ GroupEnter("CreateGroup", GroupRequest(num, <<>>, name, FALSE, <<>>))
         /\ IF num = <<>>
            THEN /\ GroupReply(400, "Please provide a number", <<>>)
                 /\ UNCHANGED <<gcommands, handed, log>>
            ELSE \/ /\ GroupReply(400, "Couldn't process request - invalid request", <<>>)
                    /\ Logged("CreateGroup: BindJSON")
                    /\ UNCHANGED <<gcommands, handed>>
                 \/ /\ gcommands' = Append(gcommands, GroupCommand("CreateGroup", num, name, FALSE))
                    /\ GroupReply(400, "a.s.CreateGroup", <<>>)
                    /\ UNCHANGED <<handed, log>>
                 \/ /\ gcommands' = gcommands \o
                          << GroupCommand("CreateGroup", num, name, TRUE),
                             GroupCommand("ListGroups", num, <<>>, FALSE) >>
                    /\ GroupReply(400, "a.s.ListGroups", <<>>)
                    /\ UNCHANGED <<handed, log>>
                 \/ \E g \in {internalGroupID(list, name) : list \in GroupLists} :
                      LET id == convertInternalGroupIDToGroupID(g)
                      IN  /\ gcommands' = gcommands \o
                                << GroupCommand("CreateGroup", num, name, TRUE),
                                   GroupCommand("ListGroups", num, <<>>, TRUE) >>
                          /\ GroupReply(201, "", <<[id |-> id]>>)
                          /\ handed' = <<[internalID |-> g, id |-> id, name |-> name,
                                          members |-> <<>>, blocked |-> FALSE,
                                          active |-> FALSE]>>
                          /\ UNCHANGED log
    /\ gpc' = "done"
    /\ UNCHANGED <<groupID, sendVars, linkVars, receiveVars>>

\* DeleteGroup up to the decoding of the groupid parameter.
DeleteGroup ==
    /\ gpc = "idle"
    /\ \E num \in Numbers, p \in GroupIDParams :
         /\ GroupEnter("DeleteGroup",
                       GroupRequest(num, p.groupid, <<>>, p.known, p.internalID))
         /\ IF num = <<>>
            THEN /\ GroupReply(400, "Please provide a number", <<>>)
                 /\ gpc' = "done"
                 /\ UNCHANGED groupID
            ELSE IF p.groupid = <<>>
            THEN /\ GroupReply(400, "Please specify a group id", <<>>)
                 /\ gpc' = "done"
                 /\ UNCHANGED groupID
            ELSE LET d == DecodeString(TrimPrefix(p.groupid, groupPrefix))
                 IN  IF d.err
                     THEN /\ GroupReply(400, "Invalid group id", <<>>)
                          /\ gpc' = "done"
                          /\ UNCHANGED groupID
                     ELSE /\ groupID' = d.bytes
                          /\ gpc' = "leave"
                          /\ UNCHANGED gresponses
    /\ UNCHANGED <<gcommands, handed, sendVars, linkVars, receiveVars, log>>

\* DeleteGroup from a.s.LeaveGroup on, with the daemon's answer.
LeaveGroup ==
    /\ gpc = "leave"
    /\ \E ok \in BOOLEAN :
         /\ gcommands' = Append(gcommands,
                GroupCommand("LeaveGroup", greq.number, EncodeToString(groupID), ok))
         /\ IF ok THEN GroupReply(200, "", <<>>)
                  ELSE GroupReply(400, "a.s.LeaveGroup", <<>>)
    /\ gpc' = "done"
    /\ UNCHANGED <<ghandler, greq, groupID, handed, sendVars, linkVars, receiveVars, log>>

\* The router hands the next group request to a handler: what the last call
\* did is behind it, what the caller was handed stays with the caller.
ServeGroups ==
    /\ gpc = "done"
    /\ gpc' = "idle"
    /\ ghandler' = "none"
    /\ greq' = NoGroupRequest
    /\ groupID' = <<>>
    /\ gcommands' = <<>>
    /\ gresponses' = <<>>
    /\ UNCHANGED <<handed, sendVars, linkVars, receiveVars, log>>

\* ----------------------------------------------------------- specification
Init ==
    /\ log = {}
    /\ gpc = "idle"
    /\ ghandler = "none"
    /\ greq = NoGroupRequest
    /\ groupID = <<>>
    /\ gcommands = <<>>
    /\ gresponses = <<>>
    /\ handed = <<>>
    /\ connected = FALSE
    /\ lpc = [s \in Sessions |-> "idle"]
    /\ deviceName = [s \in Sessions |-> <<>>]
    /\ effects = [s \in Sessions |-> <<>>]
    /\ rpc = "idle"
    /\ number = <<>>
    /\ message = NoMessage
    /\ frames = <<>>
    /\ rresponses = <<>>
    /\ handler = "none"
    /\ req = ZeroRequest
    /\ pc = "idle"
    /\ pending = <<>>
    /\ frame = NoFrame
    /\ tmpFiles = {}
    /\ commands = <<>>
    /\ responses = <<>>
    /\ created = <<>>

Next ==
    \/ Send
    \/ SendV2
    \/ SendV2_part_000
    \/ SendEnter
    \/ Materialize
    \/ SendCommand
    \/ SendAck
    \/ SendReturn
    \/ Serve

Spec == Init /\ [][Next]_vars

LinkNext ==
    \E s \in Sessions :
        \/ Link(s)
        \/ IsConnected(s)
        \/ Connect(s)
        \/ LinkFirst(s)
        \/ LinkFirstReturns(s)
        \/ QRCode(s)
        \/ PNG(s)
        \/ DisconnectAndReturn(s)
        \/ Respond(s)
        \/ LinkSecond(s)
        \/ LinkSecondReturns(s)
        \/ Disconnect(s)

LinkSpec == Init /\ [][LinkNext]_vars

ReceiveNext ==
    \/ Receive
    \/ ReadFrame
    \/ ReceiveRespond
    \/ ServeReceive

ReceiveSpec == Init /\ [][ReceiveNext]_vars

GroupNext ==
    \/ GetGroups
    \/ CreateGroup
    \/ DeleteGroup
    \/ LeaveGroup
    \/ ServeGroups

GroupSpec == Init /\ [][GroupNext]_vars

\* ------------------------------------------------------------------ claims
V2Handlers == {"SendV2", "SendV2_part_000"}

IsGroupRecipient(s) == HasPrefix(s, groupPrefix)

GroupIndices == {i \in 1..Len(req.recipients) : IsGroupRecipient(req.recipients[i])}

PlainIndices == {i \in 1..Len(req.recipients) : ~IsGroupRecipient(req.recipients[i])}

Rejected == Len(responses) = 1 /\ responses[1].code = 400

\* C1: a send handler given an empty recipient list never reaches the
\* attachment loop or the recipient loop, issues no command, creates no
\* temporary file, and what it writes is one 400 response.
C1_EmptyRecipients ==
    (handler # "none" /\ req.recipients = <<>>) =>
        /\ pc \in {"call", "ret", "done"}
        /\ commands = <<>>
        /\ created = <<>>
        /\ pc = "call" => responses = <<>>
        /\ pc \in {"ret", "done"} => Rejected

C1_Witness ==
    /\ handler = "Send"
    /\ pc = "done"
    /\ req.recipients = <<>>
    /\ req.isGroup
    /\ req.base64Attachment = BlobOK
    /\ responses = <<Response(400, "Please specify at least one recipient")>>

\* C2: SendV2 (either copy) given at least one group.-prefixed and at least
\* one plain recipient has returned with one 400 response as soon as it was
\* entered: no call of the send helper, no command, no temporary file.
C2_MixedRejected ==
    (handler \in V2Handlers /\ GroupIndices # {} /\ PlainIndices # {}) =>
        /\ pc = "done"
        /\ Rejected
        /\ commands = <<>>
        /\ created = <<>>

C2_Witness ==
    /\ handler = "SendV2"
    /\ req.recipients = <<Num1, GroupA>>
    /\ req.base64Attachments = <<BlobOK>>
    /\ pc = "done"
    /\ Rejected

TwoDistinctGroups ==
    /\ handler \in V2Handlers
    /\ Len(req.recipients) = 2
    /\ GroupIndices = {1, 2}
    /\ req.recipients[1] # req.recipients[2]

\* The send command of a group call for the group-prefixed recipient s.
IsGroupCommandFor(c, s) == c.groupID = TrimPrefix(s, groupPrefix) /\ c.to = <<>>

\* C3 as it is stated: SendV2 given two distinct group recipients and nothing
\* else has issued, when it returns, exactly two group-send commands, the
\* first for the first group and the second for the second.
C3_TwoGroupsTwoCommands ==
    (TwoDistinctGroups /\ pc = "done") =>
        /\ Len(commands) = 2
        /\ IsGroupCommandFor(commands[1], req.recipients[1])
        /\ IsGroupCommandFor(commands[2], req.recipients[2])

\* The calls of the send helper that came to issue their command: the call
\* for group i wrote response i, which is the 201 or the error of a.s.Send.
Served == {i \in 1..Len(responses) : responses[i].error \in {"", "a.s.Send"}}

\* C3 as amended: given two distinct group recipients and nothing else,
\* SendV2 of api.go rejects the call with one 400 response and no command;
\* SendV2 of part_000 calls the send helper once per group, in recipient
\* order, and each call whose group identifier is valid base64 and whose
\* attachments all materialize issues one group-send command for its group
\* (so two commands, first group then second, when both calls get that far).
C3_TwoGroupsAmended ==
    (TwoDistinctGroups /\ pc = "done") =>
        IF handler = "SendV2"
        THEN Rejected /\ commands = <<>>
        ELSE /\ Len(responses) = 2
             /\ Len(commands) = Cardinality(Served)
             /\ \A i \in Served :
                    IsGroupCommandFor(
                        commands[Cardinality({j \in Served : j <= i})],
                        req.recipients[i])
             /\ \A i \in 1..2 :
                    i \notin Served =>
                        responses[i].error \in
                            {"Invalid group id", "base64.DecodeString", "filetype.Get",
                             "ioutil.TempFile", "f.Write", "f.Sync"}

C3_Witness ==
    /\ handler = "SendV2_part_000"
    /\ pc = "done"
    /\ req.recipients = <<GroupB, GroupA>>
    /\ req.base64Attachments = <<BlobOK>>
    /\ Len(commands) = 2
    /\ IsGroupCommandFor(commands[1], GroupB)
    /\ IsGroupCommandFor(commands[2], GroupA)
    /\ ~commands[1].ok

\* C4 as it is stated: SendV2 given more than one group recipient returns
\* one 400 response and issues no command, and the commands of one call
\* never name two different groups.
C4_AtMostOneGroup ==
    /\ (handler \in V2Handlers /\ Cardinality(GroupIndices) > 1 /\ pc = "done") =>
           Rejected /\ commands = <<>>
    /\ handler \in V2Handlers =>
           \A i, j \in 1..Len(commands) : commands[i].groupID = commands[j].groupID

\* C5: whenever no call of the send helper is running (the server is idle,
\* the handler is between two calls of the helper, or the handler has
\* returned) no temporary file exists.
C5_TempFilesRemoved ==
    pc \in {"idle", "call", "done"} => tmpFiles = {}

C5_Witness ==
    /\ pc = "done"
    /\ Len(created) = 2
    /\ commands = <<>>
    /\ Len(responses) = 1
    /\ responses[1].error = "f.Sync"
    /\ tmpFiles = {}

\* The commands of the running call of the send helper.
Issued == SubSeq(commands, frame.base + 1, Len(commands))

\* The first k commands of the running call went to its first k recipients.
IssuedInOrder ==
    \A j \in 1..Len(Issued) :
        /\ j <= Len(frame.recipients)
        /\ Issued[j].to = frame.recipients[j]
        /\ Issued[j].groupID = frame.groupID

LastResponse == responses[Len(responses)]

\* C10: a call of the send helper issues its commands one per recipient in
\* recipient order, each after the previous one succeeded; when it returns
\* after the command for recipient k failed, exactly k commands were issued,
\* the first k-1 accepted ones remain and the response is a 400 carrying the
\* error; when it returns 201, exactly n commands were issued and all
\* succeeded.
C10_SendInOrderAbortOnFailure ==
    /\ pc \in {"send", "ack", "ret"} => IssuedInOrder
    /\ pc = "send" =>
           /\ Len(Issued) = frame.ri - 1
           /\ \A j \in 1..Len(Issued) : Issued[j].ok
    /\ pc = "ack" =>
           /\ Len(Issued) = Len(frame.recipients)
           /\ \A j \in 1..Len(Issued) : Issued[j].ok
    /\ (pc = "ret" /\ LastResponse.code = 201) =>
           /\ Len(Issued) = Len(frame.recipients)
           /\ \A j \in 1..Len(Issued) : Issued[j].ok
    /\ (pc = "ret" /\ LastResponse.code # 201) =>
           /\ LastResponse.code = 400
           /\ \A j \in 1..(Len(Issued) - 1) : Issued[j].ok
           /\ Issued # <<>> =>
                  /\ ~Issued[Len(Issued)].ok
                  /\ LastResponse.error = "a.s.Send"
                  /\ Len(Issued) = frame.ri
           /\ LastResponse.error = "a.s.Send" => Issued # <<>>

C10_Witness ==
    /\ pc = "ret"
    /\ frame.recipients = <<Num2, Num1>>
    /\ Len(frame.attachments) = 2
    /\ Len(Issued) = 1
    /\ ~Issued[1].ok
    /\ Issued[1].to = Num2
    /\ LastResponse = Response(400, "a.s.Send")

\* The frames the response body of a finished Receive carries: the one
\* RawResponse given to c.JSON.
Batch(body) == <<body>>

\* C6 as it is stated: Receive answers 200 only after it read a frame marked
\* Done, and the body is the whole batch: every frame read, in arrival
\* order, the Done frame last.
C6_ReceiveReturnsBatch ==
    (rpc = "done" /\ number # <<>>) =>
        /\ rresponses # <<>>
        /\ rresponses[1].code = 200
        /\ frames # <<>>
        /\ frames[Len(frames)].Done
        /\ \A i \in 1..(Len(frames) - 1) : ~frames[i].Done
        /\ Batch(rresponses[1].body) = frames

\* The positions in what session s did where op was done.
Positions(s, op) == {i \in 1..Len(effects[s]) : effects[s][i].op = op}

\* What session s did from its first link command on.
FromFirstLink(s) ==
    LET first == CHOOSE i \in Positions(s, "Link") :
                     \A j \in Positions(s, "Link") : i <= j
    IN  SubSeq(effects[s], first, Len(effects[s]))

IsPrefix(p, q) == Len(p) <= Len(q) /\ SubSeq(q, 1, Len(p)) = p

\* C7: in a Link call that wrote the image, what the call did from its first
\* link command on is, in this order: the first link command, answered with
\* a request id; the image response; a second link command carrying that
\* request id; its return, with or without an error; the disconnect.  A call
\* that wrote no image issued one link command at most, and a call whose
\* background task has ended did all of it.
C7_LinkOrder ==
    \A s \in Sessions :
        /\ Positions(s, "c.Data(200)") = {} =>
               /\ Cardinality(Positions(s, "Link")) <= 1
               /\ lpc[s] \notin {"go", "wait2", "disconnect", "done"}
        /\ Positions(s, "c.Data(200)") # {} =>
               \E ok \in BOOLEAN :
                   LET id == RequestID(s)
                       whole ==
                           << Effect("Link", <<>>, "ok", id),
                              ReplyImage,
                              Effect("Link", id, IF ok THEN "ok" ELSE "err",
                                     IF ok THEN id ELSE <<>>),
                              Disconnected >>
                       did == FromFirstLink(s)
                   IN  \/ IsPrefix(did, whole) /\ (lpc[s] = "done" => did = whole)
                       \/ did = SubSeq(whole, 1, 2) \o <<LinkIssued(id)>>
                          /\ lpc[s] = "wait2"

C7_Witness ==
    /\ lpc[1] = "done"
    /\ effects[1] =
           << Connected(TRUE),
              Effect("Link", <<>>, "ok", RequestID(1)),
              ReplyImage,
              Effect("Link", RequestID(1), "err", <<>>),
              Disconnected >>

\* Session s has returned an error response.
ReturnsError(s) == lpc[s] # "returned" /\ lpc'[s] = "returned"

\* C8: the step by which a Link call returns an error response leaves the
\* transport disconnected when the call had a device name (after a failed
\* connect, or by the disconnect after a failed first link command, QR
\* construction or PNG rendering); with an empty device name the call did
\* nothing but reply 400 and the transport is as it was.  Such a call issued
\* no second link command and does nothing afterwards.
C8_LinkErrorDisconnects ==
    [][\A s \in Sessions :
          /\ ReturnsError(s) =>
                 /\ effects'[s][Len(effects'[s])] \in {ReplyError, Disconnected}
                 /\ Positions(s, "c.Data(200)")' = {}
                 /\ Cardinality(Positions(s, "Link"))' <= 1
                 /\ \A i \in Positions(s, "Link")' : effects'[s][i].id = <<>>
                 /\ deviceName'[s] # <<>> =>
                        /\ ~connected'
                        /\ effects'[s][Len(effects'[s])] = Disconnected
                           \/ effects'[s] = <<Connected(FALSE), ReplyError>>
                 /\ deviceName'[s] = <<>> =>
                        /\ connected' = connected
                        /\ effects'[s] = <<ReplyError>>
          /\ lpc[s] = "returned" => effects'[s] = effects[s] /\ lpc'[s] = "returned"
      ]_vars

C8_Witness ==
    /\ lpc[1] = "returned"
    /\ ~connected
    /\ effects[1] =
           << Connected(TRUE), Effect("Link", <<>>, "ok", RequestID(1)),
              ReplyError, Disconnected >>

\* Session s is between the writing of its first link command and the
\* return of its second.
InLinkingSession(s) == lpc[s] \in {"wait1", "qr", "png", "respond", "go", "wait2"}

\* C9 as it is stated: while a session is between its first link command and
\* the return of its second, the transport stays connected.
C9_ConnectionStaysOpen ==
    \A s \in Sessions : InLinkingSession(s) => connected

\* Valid base64 as RFC 4648 has it, '\r' and '\n' aside: a multiple of four
\* characters of the alphabet, the last one or two of which may be '='.
ValidBase64(s) ==
    LET u == StripNewlines(s)
        n == Len(u)
    IN  /\ n % 4 = 0
        /\ \A i \in 1..n :
               \/ IsB64Char(u[i])
               \/ /\ u[i] = "="
                  /\ i >= n - 1
                  /\ u[n] = "="

\* strings.TrimPrefix, then base64.StdEncoding.DecodeString: the decoding of
\* a public group id as DeleteGroup does it.
DecodeGroupID(s) == DecodeString(TrimPrefix(s, groupPrefix))

\* DeleteGroup got as far as decoding its groupid parameter.
DeleteGroupDecodes ==
    /\ ghandler = "DeleteGroup"
    /\ greq.number # <<>>
    /\ greq.groupid # <<>>

\* C11: for every internal id g the daemon reported, the public id handed
\* out for it decodes to exactly the bytes of g, with its prefix and without;
\* DeleteGroup called with either form holds those bytes as its groupID and
\* never answers "Invalid group id"; and DeleteGroup called with a groupid
\* whose remainder after the prefix is not valid base64 ends with one 400
\* "Invalid group id" response and no daemon command.
C11_GroupIDRoundTrip ==
    /\ \A i \in 1..Len(handed) :
           /\ handed[i].id = groupPrefix \o TrimPrefix(handed[i].id, groupPrefix)
           /\ DecodeGroupID(handed[i].id) =
                  [err |-> FALSE, bytes |-> Bytes(handed[i].internalID)]
           /\ DecodeGroupID(TrimPrefix(handed[i].id, groupPrefix)) =
                  [err |-> FALSE, bytes |-> Bytes(handed[i].internalID)]
    /\ (DeleteGroupDecodes /\ greq.known) =>
           /\ gpc \in {"leave", "done"}
           /\ groupID = Bytes(greq.internalID)
           /\ \A i \in 1..Len(gresponses) : gresponses[i].error # "Invalid group id"
    /\ (DeleteGroupDecodes /\ ~ValidBase64(TrimPrefix(greq.groupid, groupPrefix))) =>
           /\ gpc = "done"
           /\ gresponses = <<GroupResponse(400, "Invalid group id", <<>>)>>
           /\ gcommands = <<>>

C11_Witness ==
    /\ ghandler = "DeleteGroup"
    /\ gpc = "done"
    /\ greq.known
    /\ greq.internalID = <<"a", "=">>
    /\ greq.groupid = groupPrefix \o <<"Y", "T", "0", "=">>
    /\ groupID = <<97, 61>>
    /\ Len(gcommands) = 1

\* C12 as it is stated: DeleteGroup called with the public id handed out for
\* the internal id g issues, when it has returned, exactly one LeaveGroup
\* command, and the command carries g as the daemon reported it.
C12_LeaveCarriesInternalID ==
    (DeleteGroupDecodes /\ greq.known /\ gpc = "done") =>
        /\ Len(gcommands) = 1
        /\ gcommands[1].op = "LeaveGroup"
        /\ gcommands[1].arg = greq.internalID

\* The second link command of session s returned an error.
SecondLinkFailed(s) ==
    \E i \in Positions(s, "Link") :
        effects[s][i].id # <<>> /\ effects[s][i].result = "err"

\* C13 as it is stated: when the background task of a Link call has ended
\* and its second link command had returned an error, something was written
\* to the log.
C13_SecondLinkFailureLogged ==
    \A s \in Sessions : (lpc[s] = "done" /\ SecondLinkFailed(s)) => log # {}

\* Send called with is_group set.
LegacyGroup == handler = "Send" /\ req.isGroup

\* Send's recipients fail the checks made under is_group.
LegacyGroupInvalid ==
    \/ Len(req.recipients) > 1
    \/ Len(req.recipients) = 1 /\ ~ValidBase64(req.recipients[1])

LegacyGroupValid == Len(req.recipients) = 1 /\ ValidBase64(req.recipients[1])

\* The one command of a legacy group call: the entry as group identifier, an
\* empty address.
OneGroupCommand ==
    /\ Len(commands) = 1
    /\ commands[1].groupID = req.recipients[1]
    /\ commands[1].to = <<>>

\* C14 as it is stated: Send with is_group set and more than one recipient,
\* or one that is not valid base64, ends with one 400 response, no command
\* and no temporary file; with exactly one valid entry it has issued, when
\* it returns, exactly one command with that entry as group identifier and
\* an empty address.
C14_LegacyGroupOneCommand ==
    /\ (LegacyGroup /\ LegacyGroupInvalid) =>
           /\ commands = <<>>
           /\ created = <<>>
           /\ pc = "done" => Rejected
    /\ (LegacyGroup /\ LegacyGroupValid /\ pc = "done") => OneGroupCommand

AttachmentErrors ==
    {"base64.DecodeString", "filetype.Get", "ioutil.TempFile", "f.Write", "f.Sync"}

\* C14 as amended: Send with is_group set and more than one recipient, or
\* one that is not valid base64, ends with one 400 response ("More than one
\* group is currently not allowed", "Invalid group id"), no command and no
\* temporary file; with exactly one valid entry it ends with one response,
\* and either the attachment failed to materialize, the response is the 400
\* of that failure and no command was issued, or exactly one command was
\* issued, with that entry as group identifier and an empty address, and the
\* response is 201 when the daemon accepted it and 400 when it did not.
C14_LegacyGroupAmended ==
    /\ (LegacyGroup /\ LegacyGroupInvalid) =>
           /\ commands = <<>>
           /\ created = <<>>
           /\ pc = "done" =>
                  responses = <<Response(400,
                      IF Len(req.recipients) > 1
                      THEN "More than one group is currently not allowed"
                      ELSE "Invalid group id")>>
    /\ (LegacyGroup /\ LegacyGroupValid /\ pc = "done") =>
           /\ Len(responses) = 1
           /\ IF responses[1].error \in AttachmentErrors
              THEN commands = <<>> /\ responses[1].code = 400
              ELSE /\ OneGroupCommand
                   /\ responses[1] = IF commands[1].ok THEN Response(201, "")
                                     ELSE Response(400, "a.s.Send")

C14_Witness ==
    /\ handler = "Send"
    /\ pc = "done"
    /\ req.isGroup
    /\ req.recipients = <<RawGroupA>>
    /\ req.base64Attachment = BlobOK
    /\ Len(created) = 1
    /\ Len(commands) = 1
    /\ commands[1].groupID = RawGroupA
    /\ commands[1].to = <<>>
    /\ commands[1].ok
    /\ responses = <<Response(201, "")>>

\* The attachments the HTTP call supplied.
SuppliedBlobs == IF handler = "Send" THEN V1Attachments(req) ELSE req.base64Attachments

\* C15 as it is stated: one HTTP send call creates at most one temporary
\* file per supplied attachment; every command it issued references the
\* files created for the attachments, in attachment order, one per
\* attachment; the files of the command about to be issued exist; and when
\* an attachment failed to materialize no command was issued.
C15_AttachmentsOnce ==
    handler # "none" =>
        /\ Len(created) <= Len(SuppliedBlobs)
        /\ \A i \in 1..Len(commands) :
               /\ commands[i].attachments = created
               /\ Len(created) = Len(SuppliedBlobs)
        /\ pc = "send" => Range(frame.attachments) \subseteq tmpFiles
        /\ (\E i \in 1..Len(responses) : responses[i].error \in AttachmentErrors) =>
               commands = <<>>

\* C16 as it is stated: a send handler that has returned wrote exactly one
\* response, and a running one wrote one at most.
C16_ExactlyOneResponse ==
    handler # "none" =>
        /\ Len(responses) <= 1
        /\ pc = "done" => Len(responses) = 1

====
